---- MODULE Spec2Model ----
(***************************************************************************)
(* Model of the execution harness and of the submission workflow of the    *)
(* Google Classroom assignment solver:                                      *)
(*   assignment_solver.py  AssignmentSolver.execute_code, solve_assignment, *)
(*                         upload_to_classroom                              *)
(*   submit.py             AssignmentSolver.execute_code_and_capture,       *)
(*                         check_submission_status, upload_to_drive,        *)
(*                         submit_assignment, detect                        *)
(***************************************************************************)
EXTENDS Integers, Sequences, FiniteSets, TLC

(***************************************************************************)
(* Bounds of the model.                                                     *)
(***************************************************************************)
MaxProblems == 2

(***************************************************************************)
(* Text.  A language name is a sequence of one-character strings, so that   *)
(* str.lower() is computed character by character.  A language that is not  *)
(* a string (JSON null from the extraction collaborator) is NoneLang.       *)
(***************************************************************************)
UpperAlpha ==
    << "A", "B", "C", "D", "E", "F", "G", "H", "I", "J", "K", "L", "M",
       "N", "O", "P", "Q", "R", "S", "T", "U", "V", "W", "X", "Y", "Z" >>

LowerAlpha ==
    << "a", "b", "c", "d", "e", "f", "g", "h", "i", "j", "k", "l", "m",
       "n", "o", "p", "q", "r", "s", "t", "u", "v", "w", "x", "y", "z" >>

LowerChar(c) ==
    IF \E i \in 1..26 : UpperAlpha[i] = c
    THEN LowerAlpha[CHOOSE i \in 1..26 : UpperAlpha[i] = c]
    ELSE c

\* str.lower() with a plausible slip: only the first letter is lowered.
LowerFirstOnly(s) == [i \in 1..Len(s) |-> IF i = 1 THEN LowerChar(s[i]) ELSE s[i]]

\* str.lower()
Lower(s) == [i \in 1..Len(s) |-> LowerChar(s[i])]

Str(chars) == [isStr |-> TRUE, chars |-> chars]

NoneLang == [isStr |-> FALSE, chars |-> << >>]

Languages ==
    { Str(<<"p","y","t","h","o","n">>), Str(<<"P","y","t","h","o","n">>),
      Str(<<"j","a","v","a">>), Str(<<"J","A","V","A">>),
      Str(<<"c","+","+">>), Str(<<"C","+","+">>), Str(<<"c","p","p">>),
      Str(<<"c">>), Str(<<"U","n","k","n","o","w","n">>),
      NoneLang }

(***************************************************************************)
(* Source text of a generated solution: a sequence of tokens, runs of       *)
(* whitespace being the one token " ".                                      *)
(***************************************************************************)
WS == " "

Words == {"public", "xpublic", "class", "Foo", "Main", "print"}

Codes ==
    { << "print", "(", "1", ")" >>,
      << "public", WS, "class", WS, "Foo", WS, "{", "}" >>,
      << "class", WS, "Main", WS, "{", "}" >> }

EndsWithPublic(tok) == tok \in {"public", "xpublic"}

\* re.search(r'public\s+class\s+(\w+)', code): the leftmost match.
ClassMatchAt(code, i) ==
    /\ i + 4 <= Len(code)
    /\ EndsWithPublic(code[i])
    /\ code[i + 1] = WS
    /\ code[i + 2] = "class"
    /\ code[i + 3] = WS
    /\ code[i + 4] \in Words

HasClassMatch(code) == \E i \in 1..Len(code) : ClassMatchAt(code, i)

FirstClassMatch(code) ==
    CHOOSE i \in 1..Len(code) :
        /\ ClassMatchAt(code, i)
        /\ \A j \in 1..(i - 1) : ~ClassMatchAt(code, j)

\* class_name = class_match.group(1) if class_match else 'Solution'
ClassName(code) ==
    IF HasClassMatch(code) THEN code[FirstClassMatch(code) + 4] ELSE "Solution"

(***************************************************************************)
(* What one subprocess.run call can do.  kind "exit": the process ran to    *)
(* its end with return code rc; "timeout": subprocess.TimeoutExpired;       *)
(* "notfound": the binary cannot be started (FileNotFoundError).  A process *)
(* writes what it likes to its stderr, the text of an error message too.   *)
(***************************************************************************)
ProcOutcomes ==
    { [kind |-> "exit", rc |-> 0, stdout |-> "out", stderr |-> "",
       descendants |-> FALSE],
      [kind |-> "exit", rc |-> 0, stdout |-> "out", stderr |-> "warn",
       descendants |-> FALSE],
      [kind |-> "exit", rc |-> 1, stdout |-> "out", stderr |-> "warn",
       descendants |-> FALSE],
      [kind |-> "exit", rc |-> 1, stdout |-> "", stderr |-> "Execution timeout",
       descendants |-> FALSE],
      [kind |-> "timeout", rc |-> -1, stdout |-> "", stderr |-> "",
       descendants |-> FALSE],
      [kind |-> "timeout", rc |-> -1, stdout |-> "", stderr |-> "",
       descendants |-> TRUE],
      [kind |-> "notfound", rc |-> -1, stdout |-> "", stderr |-> "",
       descendants |-> FALSE] }

\* The processes a subprocess.run call started: the child and, with
\* descendants, processes the child started that are running when the call
\* ends.
Started(o) ==
    IF o.kind = "notfound" THEN {}
    ELSE {"child"} \cup (IF o.descendants THEN {"descendants"} ELSE {})

\* The processes still running when subprocess.run returns or raises: the
\* child has exited, or on TimeoutExpired it is killed and waited for; no
\* process group is made and nothing else is signalled.
AliveAfter(o) == Started(o) \ {"child"}

NoResult == [stdout |-> "", stderr |-> "", success |-> FALSE, set |-> FALSE]

Result(out, err, ok) == [stdout |-> out, stderr |-> err, success |-> ok, set |-> TRUE]

(***************************************************************************)
(* State of one batch: the per-problem loop of solve_assignment             *)
(* (prog = "solve") or of detect (prog = "detect"), the call of             *)
(* execute_code / execute_code_and_capture in progress, and the files on    *)
(* disk.                                                                    *)
(***************************************************************************)
VARIABLES
    prog,        \* "solve": assignment_solver.py, "detect": submit.py
    language,    \* the language of the assignment
    nProblems,   \* number of problems the extraction returned
    idx,         \* problems handled so far by the loop
    pc,          \* position in the loop and in the execution call
    solutions,   \* the loop's list of solution entries
    outputs,     \* what the loop kept of each execution
    call,        \* locals of the execution call in progress
    procs,       \* subprocess.run calls of the execution call in progress
    dirs,        \* directories on disk created by mkdtemp
    files,       \* files on disk, as <<directory, name>>
    tmpCounter   \* names handed out by tempfile so far

VARIABLE
    report       \* the sections of the PDF report, once it is assembled

batchVars ==
    << prog, language, nProblems, idx, pc, solutions, outputs, call, procs,
       dirs, files, tmpCounter, report >>

(***************************************************************************)
(* State of the submission workflow: the remote classroom and Drive, and    *)
(* the runs of the program against them.  A run is either the detect        *)
(* command of submit.py or solve_assignment of assignment_solver.py.        *)
(***************************************************************************)
VARIABLES
    mode,        \* "seq": a run starts when the one before has ended;
                 \* "race": the runs are processes running at once
    cfg,         \* the command line of the runs
    subs,        \* remote: the submission records of each assignment
    driveFiles,  \* remote: number of files created on Drive
    run          \* the locals of each run

submitVars == << mode, cfg, subs, driveFiles, run >>

(***************************************************************************)
(* State of the rendering layer: the texts handed to a rendering function  *)
(* and what it drew.  A text is the sequence of the lengths of its lines   *)
(* (str.split('\n') never returns an empty list: the empty text is <<0>>). *)
(***************************************************************************)
VARIABLES
    doc,         \* the code, the output and the description to render
    rendered     \* the sections drawn, once a rendering function has run

renderVars == << doc, rendered >>

(***************************************************************************)
(* Two calls of the execution functions in progress at once, on the        *)
(* filesystem of the batch (dirs, files, tmpCounter).                      *)
(***************************************************************************)
VARIABLE
    execs        \* the locals of each of the two calls, and the paths it
                 \* has written, read or deleted so far

vars == << batchVars, submitVars, renderVars, execs >>

Execs == {1, 2}

NoExec ==
    [ fn |-> "none", language |-> [isStr |-> FALSE, chars |-> << >>],
      code |-> << >>, pc |-> "off", temp_dir |-> -1, file_path |-> << >>,
      exe |-> << >>, class_name |-> "", touched |-> {} ]

IdlePair == execs = [e \in Execs |-> NoExec]

NoDoc == [code |-> <<0>>, output |-> <<0>>, description |-> 0]

NoRender == [by |-> "none", sections |-> << >>]

IdleRender ==
    /\ doc = NoDoc
    /\ rendered = NoRender

\* The system temporary directory (tempfile.gettempdir()).
TmpRoot == 0

NoCall ==
    [ code |-> << >>, temp_dir |-> -1, file_path |-> << >>, exe |-> << >>,
      class_name |-> "", result |-> NoResult, output_text |-> "",
      exc |-> "none", mine |-> {} ]

InitBatch ==
    /\ prog \in {"solve", "detect"}
    /\ language \in Languages
    /\ nProblems \in 0..MaxProblems
    /\ idx = 0
    /\ pc = "loop"
    /\ solutions = << >>
    /\ outputs = << >>
    /\ call = NoCall
    /\ procs = << >>
    /\ dirs = {}
    /\ files = {}
    /\ tmpCounter = 0
    /\ report = << >>
    /\ IdleRender
    /\ IdlePair

(***************************************************************************)
(* Remote submission records and run locals.                                *)
(***************************************************************************)
NumAssignments == 2

Assignments == 1..NumAssignments

Runs == {1, 2}

SubStates == {"NEW", "CREATED", "TURNED_IN", "RETURNED", "RECLAIMED_BY_STUDENT"}

\* The value None, and the default '' of submission.get('id', '').
NoneId == -1

EmptyId == 0

\* The id of the i-th record of assignment a.
RecId(a, i) == 10 * a + i

Rec(id, state) == [id |-> id, state |-> state]

\* The lists of records the remote may hold for assignment a: every case
\* for the first assignment, and for the others no record, a new one or a
\* turned-in one.
RecordLists(a) ==
    IF a = 1
    THEN { << >> }
         \cup { << Rec(RecId(a, 1), st) >> : st \in SubStates }
         \cup { << Rec(EmptyId, "NEW") >> }
         \cup { << Rec(RecId(a, 1), "TURNED_IN"), Rec(RecId(a, 2), "NEW") >>,
                << Rec(RecId(a, 1), "NEW"), Rec(RecId(a, 2), "TURNED_IN") >> }
    ELSE { << >>, << Rec(RecId(a, 1), "NEW") >>,
           << Rec(RecId(a, 1), "TURNED_IN") >> }

NoCfg == [kind |-> "none", auto |-> FALSE, skip |-> FALSE, target |-> 0, n |-> 0]

\* The options of a run; n is the number of coding assignments that detect
\* finds in the course, target the coursework given to solve_assignment.
Cfgs ==
    { [kind |-> "detect", auto |-> a, skip |-> s, target |-> 0, n |-> k] :
        a \in BOOLEAN, s \in BOOLEAN, k \in 0..NumAssignments }
    \cup { [kind |-> "solve", auto |-> a, skip |-> FALSE, target |-> t, n |-> 0] :
             a \in BOOLEAN, t \in Assignments }

NoRun ==
    [ pc |-> "off", asg |-> 0, is_submitted |-> FALSE, submission_id |-> NoneId,
      drive_file_id |-> NoneId, total_zero |-> FALSE, no_questions |-> FALSE,
      total_assignments |-> 0, total_solved |-> 0, total_submitted |-> 0,
      obs |-> "unread", did |-> {}, writes |-> << >>, exc |-> "none",
      printed |-> {} ]

IdleSubmit ==
    /\ mode = "off"
    /\ cfg = NoCfg
    /\ subs = [a \in Assignments |-> << >>]
    /\ driveFiles = 0
    /\ run = [r \in Runs |-> NoRun]

IdleBatch ==
    /\ prog = "none"
    /\ language = NoneLang
    /\ nProblems = 0
    /\ idx = 0
    /\ pc = "off"
    /\ solutions = << >>
    /\ outputs = << >>
    /\ call = NoCall
    /\ procs = << >>
    /\ dirs = {}
    /\ files = {}
    /\ tmpCounter = 0
    /\ report = << >>
    /\ IdleRender
    /\ IdlePair

Init == InitBatch /\ IdleSubmit

(***************************************************************************)
(* Helpers of the execution calls.                                          *)
(***************************************************************************)
RECURSIVE JoinChars(_)
JoinChars(s) == IF s = << >> THEN "" ELSE Head(s) \o JoinChars(Tail(s))

\* The branch of the if/elif chain of execute_code that the language takes.
LangBranch(lang) ==
    LET l == Lower(lang.chars) IN
    IF l = <<"p","y","t","h","o","n">> THEN "python"
    ELSE IF l = <<"j","a","v","a">> THEN "java"
    ELSE IF l \in { <<"c","+","+">>, <<"c","p","p">> } THEN "cpp"
    ELSE "unsupported"

\* The class files javac leaves beside the source when it succeeds: one per
\* class the source declares.
JavacOutputs(code) ==
    { code[i + 2] \o ".class" :
        i \in { j \in 1..Len(code) :
                  /\ j + 2 <= Len(code)
                  /\ code[j] = "class"
                  /\ code[j + 1] = WS
                  /\ code[j + 2] \in Words } }

\* except subprocess.TimeoutExpired / except Exception of execute_code.
ExecHandler(o) ==
    IF o.kind = "timeout"
    THEN Result("", "Execution timeout", FALSE)
    ELSE Result("", "[Errno 2] No such file or directory", FALSE)

\* success = result.returncode == 0 with a plausible slip: the return code
\* is not looked at.
RunResultIgnoresCode(o) == Result(o.stdout, o.stderr, TRUE)

\* success = result.returncode == 0; return result.stdout, result.stderr, success
RunResult(o) == Result(o.stdout, o.stderr, o.rc = 0)

InTempDir(d) == { f \in files : f[1] = d }

(***************************************************************************)
(* assignment_solver.py: AssignmentSolver.execute_code                      *)
(***************************************************************************)
\* temp_dir = tempfile.mkdtemp(), before the try block: an OSError raised
\* here is not handled by execute_code.
ExecMkdtemp ==
    /\ prog = "solve"
    /\ pc = "mkdtemp"
    /\ \/ /\ tmpCounter' = tmpCounter + 1
          /\ dirs' = dirs \cup {tmpCounter + 1}
          /\ call' = [call EXCEPT !.temp_dir = tmpCounter + 1]
          /\ pc' = "dispatch"
       \/ /\ call' = [call EXCEPT !.exc = "OSError"]
          /\ pc' = "raised"
          /\ UNCHANGED <<tmpCounter, dirs>>
    /\ UNCHANGED <<submitVars, report, renderVars, execs>>
    /\ UNCHANGED <<prog, language, nProblems, idx, solutions, outputs, procs, files>>

\* The file name and the next step of the branch taken.
ExecFileName(branch, code) ==
    IF branch = "python" THEN "solution.py"
    ELSE IF branch = "java" THEN ClassName(code) \o ".java"
    ELSE "solution.cpp"

\* The if/elif chain up to the first subprocess.run of the branch: the source
\* file is written, or the call leaves through a handler.
ExecDispatch ==
    /\ prog = "solve"
    /\ pc = "dispatch"
    /\ IF ~language.isStr
       THEN \* language.lower() raises AttributeError: except Exception
            /\ call' = [call EXCEPT !.result =
                           Result("", "object has no attribute 'lower'", FALSE)]
            /\ pc' = "finally"
            /\ UNCHANGED files
       ELSE IF LangBranch(language) = "unsupported"
       THEN /\ call' = [call EXCEPT !.result =
                           Result("", "Unsupported language: "
                                      \o JoinChars(language.chars), FALSE)]
            /\ pc' = "finally"
            /\ UNCHANGED files
       ELSE LET branch == LangBranch(language)
                name == ExecFileName(branch, call.code)
                path == <<call.temp_dir, name>>
            IN  \/ \* open() and f.write() succeed
                   /\ files' = files \cup {path}
                   /\ call' = [call EXCEPT
                         !.file_path = path,
                         !.class_name =
                             IF branch = "java" THEN ClassName(call.code) ELSE "",
                         !.exe = IF branch = "cpp"
                                 THEN <<call.temp_dir, "solution">> ELSE << >>,
                         !.mine = {path}]
                   /\ pc' = IF branch = "python" THEN "run" ELSE "compile"
                \/ \* open() or f.write() raises: except Exception
                   /\ \E created \in BOOLEAN :
                        /\ files' = IF created THEN files \cup {path} ELSE files
                        /\ call' = [call EXCEPT
                              !.result = Result("", "OSError", FALSE),
                              !.mine = IF created THEN {path} ELSE {}]
                   /\ pc' = "finally"
    /\ UNCHANGED <<submitVars, report, renderVars, execs>>
    /\ UNCHANGED <<prog, language, nProblems, idx, solutions, outputs, procs,
                   dirs, tmpCounter>>

\* The compile step with a plausible slip: the return code is not tested
\* and the run step follows whenever the compiler ended.
ExecCompileUnchecked ==
    /\ prog = "solve"
    /\ pc = "compile"
    /\ \E o \in ProcOutcomes :
         LET branch == LangBranch(language)
             built == IF branch = "java"
                      THEN { <<call.temp_dir, n>> : n \in JavacOutputs(call.code) }
                      ELSE { call.exe }
             made == IF o.kind = "exit" /\ o.rc = 0 THEN built ELSE {}
         IN  /\ procs' = Append(procs,
                    [stage |-> "compile",
                     cmd |-> IF branch = "java" THEN "javac" ELSE "g++",
                     timeout |-> 10,
                     o |-> o,
                     alive |-> AliveAfter(o)])
             /\ files' = files \cup made
             /\ IF o.kind = "exit"
                THEN /\ call' = [call EXCEPT !.mine = @ \cup made]
                     /\ pc' = "run"
                ELSE /\ call' = [call EXCEPT !.result = ExecHandler(o)]
                     /\ pc' = "finally"
    /\ UNCHANGED <<submitVars, report, renderVars, execs>>
    /\ UNCHANGED <<prog, language, nProblems, idx, solutions, outputs, dirs,
                   tmpCounter>>

\* The compile step of the java and c++ branches and the test of its
\* return code.
ExecCompile ==
    /\ prog = "solve"
    /\ pc = "compile"
    /\ \E o \in ProcOutcomes, partial \in BOOLEAN :
         LET branch == LangBranch(language)
             built == IF branch = "java"
                      THEN { <<call.temp_dir, n>> : n \in JavacOutputs(call.code) }
                      ELSE { call.exe }
             made == IF o.kind = "exit" /\ o.rc = 0 THEN built
                     ELSE IF partial /\ o.kind # "notfound" THEN built ELSE {}
         IN  /\ procs' = Append(procs,
                    [stage |-> "compile",
                     cmd |-> IF branch = "java" THEN "javac" ELSE "g++",
                     timeout |-> 10,
                     o |-> o,
                     alive |-> AliveAfter(o)])
             /\ files' = files \cup made
             /\ IF o.kind = "exit" /\ o.rc = 0
                THEN /\ call' = [call EXCEPT !.mine = @ \cup made]
                     /\ pc' = "run"
                ELSE /\ call' = [call EXCEPT
                           !.mine = @ \cup made,
                           !.result = IF o.kind = "exit"
                                      THEN Result("", o.stderr, FALSE)
                                      ELSE ExecHandler(o)]
                     /\ pc' = "finally"
    /\ UNCHANGED <<submitVars, report, renderVars, execs>>
    /\ UNCHANGED <<prog, language, nProblems, idx, solutions, outputs, dirs,
                   tmpCounter>>

\* The run step and "success = result.returncode == 0".
ExecRun ==
    /\ prog = "solve"
    /\ pc = "run"
    /\ \E o \in ProcOutcomes, wrote \in BOOLEAN :
         LET branch == LangBranch(language)
             made == IF wrote /\ o.kind # "notfound"
                     THEN { <<call.temp_dir, "data.txt">> } ELSE {}
         IN  /\ procs' = Append(procs,
                    [stage |-> "run",
                     cmd |-> IF branch = "python" THEN "python3"
                             ELSE IF branch = "java" THEN "java"
                             ELSE "solution",
                     timeout |-> 10,
                     o |-> o,
                     alive |-> AliveAfter(o)])
             /\ files' = files \cup made
             /\ call' = [call EXCEPT
                   !.mine = @ \cup made,
                   !.result = IF o.kind = "exit" THEN RunResult(o)
                              ELSE ExecHandler(o)]
             /\ pc' = "finally"
    /\ UNCHANGED <<submitVars, report, renderVars, execs>>
    /\ UNCHANGED <<prog, language, nProblems, idx, solutions, outputs, dirs,
                   tmpCounter>>

\* The cleanup with a plausible slip: it is the last statement of the try
\* block instead of a finally clause, so that a handler skips it.
ExecCleanupNotFinally ==
    /\ prog = "solve"
    /\ pc = "finally"
    /\ IF procs # << >> /\ procs[Len(procs)].o.kind # "exit"
       THEN UNCHANGED <<files, dirs>>
       ELSE /\ files' = files \ InTempDir(call.temp_dir)
            /\ dirs' = dirs \ {call.temp_dir}
    /\ pc' = "returned"
    /\ UNCHANGED <<submitVars, report, renderVars, execs>>
    /\ UNCHANGED <<prog, language, nProblems, idx, solutions, outputs, call,
                   procs, tmpCounter>>

\* finally: shutil.rmtree(temp_dir, ignore_errors=True), then the return.
ExecFinally ==
    /\ prog = "solve"
    /\ pc = "finally"
    /\ files' = files \ InTempDir(call.temp_dir)
    /\ dirs' = dirs \ {call.temp_dir}
    /\ pc' = "returned"
    /\ UNCHANGED <<submitVars, report, renderVars, execs>>
    /\ UNCHANGED <<prog, language, nProblems, idx, solutions, outputs, call,
                   procs, tmpCounter>>

(***************************************************************************)
(* assignment_solver.py: the per-problem loop of solve_assignment           *)
(***************************************************************************)
ExampleOutputs == {"", "expected"}

\* What create_code_screenshot draws for the output it is given: nothing for
\* an empty output, else the heading "OUTPUT:" and the text.
OutputSection(output) ==
    IF output = "" THEN [label |-> "", text |-> ""]
    ELSE [label |-> "OUTPUT:", text |-> output]

\* solution = self.generate_solution(...); solutions.append(solution)
SolveGenerate ==
    /\ prog = "solve"
    /\ pc = "loop"
    /\ idx < nProblems
    /\ \E code \in Codes, ex \in ExampleOutputs :
         /\ solutions' = Append(solutions,
                [problem |-> idx + 1, code |-> code, example_output |-> ex])
         /\ call' = [NoCall EXCEPT !.code = code]
    /\ procs' = << >>
    /\ pc' = "mkdtemp"
    /\ UNCHANGED <<submitVars, report, renderVars, execs>>
    /\ UNCHANGED <<prog, language, nProblems, idx, outputs, dirs, files,
                   tmpCounter>>

\* The rest of the loop body with a plausible slip: a failed execution
\* leaves the loop.
SolveBreakOnFailure ==
    /\ prog = "solve"
    /\ pc = "returned"
    /\ outputs' = Append(outputs,
           [problem |-> idx + 1,
            output |-> IF call.result.success THEN call.result.stdout
                       ELSE solutions[idx + 1].example_output,
            shot |-> OutputSection(IF call.result.success THEN call.result.stdout
                                   ELSE solutions[idx + 1].example_output),
            fallback |-> ~call.result.success])
    /\ idx' = idx + 1
    /\ pc' = IF call.result.success THEN "loop" ELSE "done"
    /\ UNCHANGED <<submitVars, report, renderVars, execs>>
    /\ UNCHANGED <<prog, language, nProblems, solutions, call, procs, dirs,
                   files, tmpCounter>>

\* output = stdout if success else solution.get('example_output', ''), and
\* the screenshot made from it.
SolveAfterExec ==
    /\ prog = "solve"
    /\ pc = "returned"
    /\ outputs' = Append(outputs,
           [problem |-> idx + 1,
            output |-> IF call.result.success THEN call.result.stdout
                       ELSE solutions[idx + 1].example_output,
            shot |-> OutputSection(IF call.result.success THEN call.result.stdout
                                   ELSE solutions[idx + 1].example_output),
            fallback |-> ~call.result.success])
    /\ idx' = idx + 1
    /\ pc' = "loop"
    /\ UNCHANGED <<submitVars, report, renderVars, execs>>
    /\ UNCHANGED <<prog, language, nProblems, solutions, call, procs, dirs,
                   files, tmpCounter>>

\* An exception that left execute_code leaves the loop and solve_assignment.
SolvePropagate ==
    /\ prog = "solve"
    /\ pc = "raised"
    /\ pc' = "aborted"
    /\ UNCHANGED <<submitVars, report, renderVars, execs>>
    /\ UNCHANGED <<prog, language, nProblems, idx, solutions, outputs, call,
                   procs, dirs, files, tmpCounter>>

\* The loop is exhausted.
LoopEnd ==
    /\ pc = "loop"
    /\ idx = nProblems
    /\ pc' = "done"
    /\ UNCHANGED <<submitVars, report, renderVars, execs>>
    /\ UNCHANGED <<prog, language, nProblems, idx, solutions, outputs, call,
                   procs, dirs, files, tmpCounter>>

Min(a, b) == IF a <= b THEN a ELSE b

\* zip(xs, ys): the pairs up to the end of the shorter list.
Zip(xs, ys) == [i \in 1..Min(Len(xs), Len(ys)) |-> <<xs[i], ys[i]>>]

\* The list of problems (questions) the extraction returned, by number.
Problems == [i \in 1..nProblems |-> i]

\* The part of the story that the loop "for idx, (problem, solution) in
\* enumerate(zip(...))" appends for one pair: heading, code and output.
Section(i, pair) ==
    [ heading |-> pair[1],
      code |-> pair[2].code,
      output |-> IF i <= Len(outputs) THEN outputs[i].output ELSE "" ]

\* The report loop with a plausible slip: the pairs whose execution failed
\* are left out.
ReportSkipsFailed ==
    /\ pc = "done"
    /\ LET pairs == Zip(Problems, solutions)
           kept == SelectSeq([i \in DOMAIN pairs |-> i],
                             LAMBDA i : ~outputs[i].fallback)
       IN  report' = [k \in DOMAIN kept |-> Section(kept[k], pairs[kept[k]])]
    /\ pc' = "reported"
    /\ UNCHANGED <<submitVars, renderVars, execs>>
    /\ UNCHANGED <<prog, language, nProblems, idx, solutions, outputs, call,
                   procs, dirs, files, tmpCounter>>

\* create_pdf_report / create_solution_pdf, called after the loop: one
\* section per pair of zip(problems, solutions), in that order.
CreateReport ==
    /\ pc = "done"
    /\ LET pairs == Zip(Problems, solutions)
       IN  report' = [i \in DOMAIN pairs |-> Section(i, pairs[i])]
    /\ pc' = "reported"
    /\ UNCHANGED <<submitVars, renderVars, execs>>
    /\ UNCHANGED <<prog, language, nProblems, idx, solutions, outputs, call,
                   procs, dirs, files, tmpCounter>>

NextSolve ==
    \/ SolveGenerate
    \/ ExecMkdtemp
    \/ ExecDispatch
    \/ ExecCompile
    \/ ExecRun
    \/ ExecFinally
    \/ SolveAfterExec
    \/ SolvePropagate

(***************************************************************************)
(* submit.py: AssignmentSolver.execute_code_and_capture                     *)
(***************************************************************************)
\* ext_map.get(language.lower(), '.txt')
ExtOf(lang) ==
    LET l == Lower(lang.chars) IN
    IF l = <<"p","y","t","h","o","n">> THEN ".py"
    ELSE IF l = <<"j","a","v","a">> THEN ".java"
    ELSE IF l \in { <<"c","+","+">>, <<"c","p","p">> } THEN ".cpp"
    ELSE IF l = <<"c">> THEN ".c"
    ELSE ".txt"

\* The name tempfile.NamedTemporaryFile gives its k-th file.
TempName(k, ext) == "tmp" \o ToString(k) \o ext

\* except subprocess.TimeoutExpired / except Exception of
\* execute_code_and_capture.
CaptureHandler(o) ==
    IF o.kind = "timeout"
    THEN "Execution timeout (>5 seconds)"
    ELSE "Execution error: [Errno 2] No such file or directory"

\* output_text = "", the extension, and the source written to a named
\* temporary file that is not deleted on close.
CapStart ==
    /\ prog = "detect"
    /\ pc = "cap_start"
    /\ IF ~language.isStr
       THEN \* language.lower() raises AttributeError: except Exception
            /\ call' = [call EXCEPT !.output_text =
                           "Execution error: object has no attribute 'lower'"]
            /\ pc' = "cap_return"
            /\ UNCHANGED <<files, tmpCounter>>
       ELSE LET k == tmpCounter + 1
                path == <<TmpRoot, TempName(k, ExtOf(language))>>
                branch == LangBranch(language)
            IN  \/ \* the file is created and written
                   /\ tmpCounter' = k
                   /\ files' = files \cup {path}
                   /\ call' = [call EXCEPT
                         !.file_path = path,
                         !.exe = IF branch = "cpp"
                                 THEN <<TmpRoot, TempName(k, ".out")>> ELSE << >>,
                         !.mine = {path}]
                   /\ pc' = IF branch = "python" THEN "cap_run"
                            ELSE IF branch = "unsupported" THEN "cap_cleanup"
                            ELSE "cap_compile"
                \/ \* the file is created and f.write() raises
                   /\ tmpCounter' = k
                   /\ files' = files \cup {path}
                   /\ call' = [call EXCEPT
                         !.output_text = "Execution error: OSError",
                         !.mine = {path}]
                   /\ pc' = "cap_return"
                \/ \* NamedTemporaryFile() raises
                   /\ call' = [call EXCEPT
                         !.output_text = "Execution error: OSError"]
                   /\ pc' = "cap_return"
                   /\ UNCHANGED <<files, tmpCounter>>
    /\ UNCHANGED <<submitVars, report, renderVars, execs>>
    /\ UNCHANGED <<prog, language, nProblems, idx, solutions, outputs, procs,
                   dirs>>

\* The compile step of the java and c++ branches and the test of its
\* return code.
CapCompile ==
    /\ prog = "detect"
    /\ pc = "cap_compile"
    /\ \E o \in ProcOutcomes, partial \in BOOLEAN :
         LET branch == LangBranch(language)
             built == IF branch = "java"
                      THEN { <<TmpRoot, n>> : n \in JavacOutputs(call.code) }
                      ELSE { call.exe }
             made == IF o.kind = "exit" /\ o.rc = 0 THEN built
                     ELSE IF partial /\ o.kind # "notfound" THEN built ELSE {}
         IN  /\ procs' = Append(procs,
                    [stage |-> "compile",
                     cmd |-> IF branch = "java" THEN "javac" ELSE "g++",
                     timeout |-> 10,
                     o |-> o,
                     alive |-> AliveAfter(o)])
             /\ files' = files \cup made
             /\ IF o.kind = "exit"
                THEN /\ call' = [call EXCEPT
                           !.mine = @ \cup made,
                           !.class_name =
                               IF branch = "java" /\ o.rc = 0
                               THEN TempName(tmpCounter, "") ELSE "",
                           !.output_text =
                               IF o.rc = 0 THEN @
                               ELSE "Compilation Error:\n" \o o.stderr]
                     /\ pc' = IF o.rc = 0 THEN "cap_run" ELSE "cap_cleanup"
                ELSE /\ call' = [call EXCEPT
                           !.mine = @ \cup made,
                           !.output_text = CaptureHandler(o)]
                     /\ pc' = "cap_return"
    /\ UNCHANGED <<submitVars, report, renderVars, execs>>
    /\ UNCHANGED <<prog, language, nProblems, idx, solutions, outputs, dirs,
                   tmpCounter>>

\* output_text = result.stdout + result.stderr
CapRunOutput(o) == o.stdout \o o.stderr

\* The run step and "output_text = result.stdout + result.stderr".
CapRun ==
    /\ prog = "detect"
    /\ pc = "cap_run"
    /\ \E o \in ProcOutcomes :
         LET branch == LangBranch(language) IN
         /\ procs' = Append(procs,
                [stage |-> "run",
                 cmd |-> IF branch = "python" THEN "python3"
                         ELSE IF branch = "java" THEN "java"
                         ELSE "exe_file",
                 timeout |-> 5,
                 o |-> o,
                 alive |-> AliveAfter(o)])
         /\ IF o.kind = "exit"
            THEN /\ call' = [call EXCEPT !.output_text = CapRunOutput(o)]
                 /\ pc' = "cap_cleanup"
            ELSE /\ call' = [call EXCEPT !.output_text = CaptureHandler(o)]
                 /\ pc' = "cap_return"
    /\ UNCHANGED <<submitVars, report, renderVars, execs>>
    /\ UNCHANGED <<prog, language, nProblems, idx, solutions, outputs, dirs,
                   files, tmpCounter>>

\* "Clean up": os.unlink(temp_file), and os.unlink(exe_file) for c++ when it
\* exists.  The statement is the last of the try block: a handler skips it.
CapCleanup ==
    /\ prog = "detect"
    /\ pc = "cap_cleanup"
    /\ files' = (files \ {call.file_path})
                  \ (IF LangBranch(language) = "cpp" THEN {call.exe} ELSE {})
    /\ pc' = "cap_return"
    /\ UNCHANGED <<submitVars, report, renderVars, execs>>
    /\ UNCHANGED <<prog, language, nProblems, idx, solutions, outputs, call,
                   procs, dirs, tmpCounter>>

\* The screenshot of output_text and the return.
CapReturn ==
    /\ prog = "detect"
    /\ pc = "cap_return"
    /\ pc' = "returned"
    /\ UNCHANGED <<submitVars, report, renderVars, execs>>
    /\ UNCHANGED <<prog, language, nProblems, idx, solutions, outputs, call,
                   procs, dirs, files, tmpCounter>>

(***************************************************************************)
(* submit.py: the per-question loop of detect                               *)
(***************************************************************************)
\* solution = solver.generate_solution(question, questions_data['language'])
DetectGenerate ==
    /\ prog = "detect"
    /\ pc = "loop"
    /\ idx < nProblems
    /\ \E code \in Codes : call' = [NoCall EXCEPT !.code = code]
    /\ procs' = << >>
    /\ pc' = "cap_start"
    /\ UNCHANGED <<submitVars, report, renderVars, execs>>
    /\ UNCHANGED <<prog, language, nProblems, idx, solutions, outputs, dirs,
                   files, tmpCounter>>

\* solution['output'] = output; solutions.append(solution)
DetectAfterExec ==
    /\ prog = "detect"
    /\ pc = "returned"
    /\ solutions' = Append(solutions,
           [problem |-> idx + 1, code |-> call.code, example_output |-> ""])
    /\ outputs' = Append(outputs,
           [problem |-> idx + 1, output |-> call.output_text,
            shot |-> [label |-> "Output:", text |-> call.output_text],
            fallback |-> FALSE])
    /\ idx' = idx + 1
    /\ pc' = "loop"
    /\ UNCHANGED <<submitVars, report, renderVars, execs>>
    /\ UNCHANGED <<prog, language, nProblems, call, procs, dirs, files,
                   tmpCounter>>

NextDetect ==
    \/ DetectGenerate
    \/ CapStart
    \/ CapCompile
    \/ CapRun
    \/ CapCleanup
    \/ CapReturn
    \/ DetectAfterExec

(***************************************************************************)
(* The remote classroom service as the program sees it.                     *)
(***************************************************************************)
CanStep(r) == mode = "race" \/ \A q \in Runs : q < r => run[q].pc = "done"

HasRecord(a, sid) == \E i \in DOMAIN subs[a] : subs[a][i].id = sid

\* The state of the submission sid of assignment a, "none" when there is none.
RemoteState(a, sid) ==
    IF HasRecord(a, sid)
    THEN subs[a][CHOOSE i \in DOMAIN subs[a] : subs[a][i].id = sid].state
    ELSE "none"

\* studentSubmissions().turnIn(id=sid) accepted by the remote.
TurnedIn(a, sid) ==
    [subs EXCEPT ![a] =
        [i \in DOMAIN subs[a] |->
            IF subs[a][i].id = sid
            THEN [subs[a][i] EXCEPT !.state = "TURNED_IN"]
            ELSE subs[a][i]]]

\* One write call as the remote receives it: before is the state of the
\* submission when the call arrives, ok whether the call was accepted.
LogEntry(op, a, sid, ok) ==
    [op |-> op, asg |-> a, sid |-> sid, before |-> RemoteState(a, sid),
     ok |-> ok]

IsFalsy(id) == id \in {NoneId, EmptyId}

(***************************************************************************)
(* submit.py: AssignmentSolver.check_submission_status                      *)
(***************************************************************************)
\* check_submission_status with a plausible slip: RETURNED is left out of
\* the submitted states.
CheckTurnedInOnly(ok, records) ==
    IF ok /\ records # << >>
    THEN [is_submitted |-> records[1].state = "TURNED_IN",
          submission_id |-> records[1].id]
    ELSE [is_submitted |-> FALSE, submission_id |-> NoneId]

\* The tuple returned for the response of studentSubmissions().list():
\* ok = FALSE is an HttpError.
CheckSubmissionStatus(ok, records) ==
    IF ok /\ records # << >>
    THEN [is_submitted |-> records[1].state \in {"TURNED_IN", "RETURNED"},
          submission_id |-> records[1].id]
    ELSE [is_submitted |-> FALSE, submission_id |-> NoneId]

\* What the call read: ghost value kept for the properties.
Observed(ok, records) ==
    IF ~ok THEN "error"
    ELSE IF records = << >> THEN "empty"
    ELSE records[1].state

(***************************************************************************)
(* submit.py: detect, one step per remote call                              *)
(***************************************************************************)
\* The end of one iteration of the loop over the assignments ("continue"
\* or the end of the loop body).
NextAssignment(rv) == [rv EXCEPT !.pc = "next"]

\* The loop over the assignments takes the next one; did, writes, obs and
\* the locals of the iteration describe the iteration just ended until then.
DetectContinue(r) ==
    /\ cfg.kind = "detect"
    /\ run[r].pc = "next"
    /\ CanStep(r)
    /\ run' = [run EXCEPT ![r] =
                 IF run[r].asg < cfg.n
                 THEN [NoRun EXCEPT
                         !.asg = run[r].asg + 1, !.pc = "check",
                         !.total_assignments = run[r].total_assignments,
                         !.total_solved = run[r].total_solved,
                         !.total_submitted = run[r].total_submitted]
                 ELSE [run[r] EXCEPT !.pc = "summary"]]
    /\ UNCHANGED <<mode, cfg, subs, driveFiles>>
    /\ UNCHANGED <<batchVars, renderVars, execs>>

\* The courses and their coding assignments are fetched.
DetectStart(r) ==
    /\ cfg.kind = "detect"
    /\ run[r].pc = "start"
    /\ CanStep(r)
    /\ run' = [run EXCEPT ![r] =
                 IF cfg.n = 0
                 THEN [@ EXCEPT !.pc = "summary"]
                 ELSE [@ EXCEPT !.total_assignments = cfg.n,
                                !.asg = 1, !.pc = "check"]]
    /\ UNCHANGED <<mode, cfg, subs, driveFiles>>
    /\ UNCHANGED <<batchVars, renderVars, execs>>

\* The call of check_submission_status with a plausible slip: it reclaims a
\* turned-in submission so that the run can submit again.
DetectCheckReclaims(r) ==
    /\ cfg.kind = "detect"
    /\ run[r].pc = "check"
    /\ CanStep(r)
    /\ \E ok \in BOOLEAN :
         LET a == run[r].asg
             res == CheckSubmissionStatus(ok, subs[a])
         IN  /\ run' = [run EXCEPT ![r] =
                          [@ EXCEPT !.is_submitted = res.is_submitted,
                                    !.submission_id = res.submission_id,
                                    !.obs = Observed(ok, subs[a]),
                                    !.pc = "decide"]]
             /\ subs' = IF ok /\ res.is_submitted
                        THEN [subs EXCEPT ![a][1].state = "RECLAIMED_BY_STUDENT"]
                        ELSE subs
    /\ UNCHANGED <<mode, cfg, driveFiles>>
    /\ UNCHANGED <<batchVars, renderVars, execs>>

\* is_submitted, submission_id = solver.check_submission_status(...)
DetectCheck(r) ==
    /\ cfg.kind = "detect"
    /\ run[r].pc = "check"
    /\ CanStep(r)
    /\ \E ok \in BOOLEAN :
         LET res == CheckSubmissionStatus(ok, subs[run[r].asg]) IN
         run' = [run EXCEPT ![r] =
                   [@ EXCEPT !.is_submitted = res.is_submitted,
                             !.submission_id = res.submission_id,
                             !.obs = Observed(ok, subs[run[r].asg]),
                             !.pc = "decide"]]
    /\ UNCHANGED <<mode, cfg, subs, driveFiles>>
    /\ UNCHANGED <<batchVars, renderVars, execs>>

\* The two tests with a plausible slip: the test of submission_id is missing.
DetectDecideNoIdTest(r) ==
    /\ cfg.kind = "detect"
    /\ run[r].pc = "decide"
    /\ CanStep(r)
    /\ run' = [run EXCEPT ![r] =
                 IF run[r].is_submitted /\ cfg.skip
                 THEN NextAssignment([run[r] EXCEPT !.did = @ \cup {"skip"}])
                 ELSE [run[r] EXCEPT !.pc = "extract"]]
    /\ UNCHANGED <<mode, cfg, subs, driveFiles>>
    /\ UNCHANGED <<batchVars, renderVars, execs>>

\* The two tests with a plausible slip: the test of is_submitted is missing.
DetectDecideNoSkipTest(r) ==
    /\ cfg.kind = "detect"
    /\ run[r].pc = "decide"
    /\ CanStep(r)
    /\ run' = [run EXCEPT ![r] =
                 IF IsFalsy(run[r].submission_id)
                 THEN NextAssignment([run[r] EXCEPT !.did = @ \cup {"skip"}])
                 ELSE [run[r] EXCEPT !.pc = "extract"]]
    /\ UNCHANGED <<mode, cfg, subs, driveFiles>>
    /\ UNCHANGED <<batchVars, renderVars, execs>>

\* if is_submitted and skip_submitted: continue
\* if not submission_id: continue
DetectDecide(r) ==
    /\ cfg.kind = "detect"
    /\ run[r].pc = "decide"
    /\ CanStep(r)
    /\ run' = [run EXCEPT ![r] =
                 IF (run[r].is_submitted /\ cfg.skip) \/ IsFalsy(run[r].submission_id)
                 THEN NextAssignment([run[r] EXCEPT !.did = @ \cup {"skip"}])
                 ELSE [run[r] EXCEPT !.pc = "extract"]]
    /\ UNCHANGED <<mode, cfg, subs, driveFiles>>
    /\ UNCHANGED <<batchVars, renderVars, execs>>

\* questions_data = solver.extract_questions(full_text): total_zero is
\* total_questions == 0, no_questions is an empty list of questions.
DetectExtract(r) ==
    /\ cfg.kind = "detect"
    /\ run[r].pc = "extract"
    /\ CanStep(r)
    /\ \E tz \in BOOLEAN, nq \in BOOLEAN :
         LET rv == [run[r] EXCEPT !.did = @ \cup {"extract"},
                                  !.total_zero = tz, !.no_questions = nq]
         IN  run' = [run EXCEPT ![r] =
                       IF tz THEN NextAssignment(rv)
                       ELSE [rv EXCEPT !.pc = "solve"]]
    /\ UNCHANGED <<mode, cfg, subs, driveFiles>>
    /\ UNCHANGED <<batchVars, renderVars, execs>>

\* The loop over the questions and the PDF with a plausible slip: the test
\* of auto_submit is missing.
DetectSolveIgnoresFlag(r) ==
    /\ cfg.kind = "detect"
    /\ run[r].pc = "solve"
    /\ CanStep(r)
    /\ LET rv == [run[r] EXCEPT
                    !.did =
                        @ \cup (IF run[r].no_questions THEN {}
                                ELSE {"generate", "execute"})
                          \cup {"report"},
                    !.total_solved = @ + 1]
       IN  run' = [run EXCEPT ![r] = [rv EXCEPT !.pc = "upload"]]
    /\ UNCHANGED <<mode, cfg, subs, driveFiles>>
    /\ UNCHANGED <<batchVars, renderVars, execs>>

\* The loop over the questions (generation and execution of each), the PDF,
\* and the test of auto_submit.
DetectSolve(r) ==
    /\ cfg.kind = "detect"
    /\ run[r].pc = "solve"
    /\ CanStep(r)
    /\ LET rv == [run[r] EXCEPT
                    !.did =
                        @ \cup (IF run[r].no_questions THEN {}
                                ELSE {"generate", "execute"})
                          \cup {"report"},
                    !.total_solved = @ + 1]
       IN  run' = [run EXCEPT ![r] =
                     IF cfg.auto THEN [rv EXCEPT !.pc = "upload"]
                     ELSE NextAssignment(rv)]
    /\ UNCHANGED <<mode, cfg, subs, driveFiles>>
    /\ UNCHANGED <<batchVars, renderVars, execs>>

\* upload_to_drive with a plausible slip: the test "if drive_file_id" is
\* missing and submit_assignment is called after a failed upload too.
DetectUploadUnchecked(r) ==
    /\ cfg.kind = "detect"
    /\ run[r].pc = "upload"
    /\ CanStep(r)
    /\ \E ok \in BOOLEAN :
         LET a == run[r].asg
             rv == [run[r] EXCEPT !.did = @ \cup {"upload"},
                                  !.writes = Append(@, LogEntry("upload", a, NoneId, ok))]
         IN  /\ driveFiles' = IF ok THEN driveFiles + 1 ELSE driveFiles
             /\ run' = [run EXCEPT ![r] =
                          IF ok
                          THEN [rv EXCEPT !.drive_file_id = driveFiles + 1,
                                          !.pc = "attach"]
                          ELSE [rv EXCEPT !.printed =
                                              @ \cup {"Error uploading to Drive"},
                                          !.pc = "attach"]]
    /\ UNCHANGED <<mode, cfg, subs>>
    /\ UNCHANGED <<batchVars, renderVars, execs>>

\* drive_file_id = solver.upload_to_drive(pdf_path, pdf_filename)
DetectUpload(r) ==
    /\ cfg.kind = "detect"
    /\ run[r].pc = "upload"
    /\ CanStep(r)
    /\ \E ok \in BOOLEAN :
         LET a == run[r].asg
             rv == [run[r] EXCEPT !.did = @ \cup {"upload"},
                                  !.writes = Append(@, LogEntry("upload", a, NoneId, ok))]
         IN  /\ driveFiles' = IF ok THEN driveFiles + 1 ELSE driveFiles
             /\ run' = [run EXCEPT ![r] =
                          IF ok
                          THEN [rv EXCEPT !.drive_file_id = driveFiles + 1,
                                          !.pc = "attach"]
                          ELSE NextAssignment(
                                 [rv EXCEPT !.printed =
                                     @ \cup {"Error uploading to Drive",
                                             "Failed to upload file."}])]
    /\ UNCHANGED <<mode, cfg, subs>>
    /\ UNCHANGED <<batchVars, renderVars, execs>>

\* submit_assignment's modifyAttachments with a plausible slip: a refused
\* call is issued again.
DetectAttachRetry(r) ==
    /\ cfg.kind = "detect"
    /\ run[r].pc = "attach"
    /\ CanStep(r)
    /\ \E ok \in BOOLEAN :
         LET a == run[r].asg
             rv == [run[r] EXCEPT !.did = @ \cup {"attach"},
                                  !.writes = Append(@,
                                      LogEntry("attach", a, run[r].submission_id, ok))]
         IN  /\ run' = [run EXCEPT ![r] =
                          IF ok
                          THEN [rv EXCEPT !.printed = @ \cup {"File attached to submission"},
                                          !.pc = "turnin"]
                          ELSE [rv EXCEPT !.printed = @ \cup {"Error submitting assignment"}]]
    /\ UNCHANGED <<mode, cfg, subs, driveFiles>>
    /\ UNCHANGED <<batchVars, renderVars, execs>>

\* submit_assignment: modifyAttachments; an HttpError ends submit_assignment,
\* after which detect counts the assignment as submitted.
DetectAttach(r) ==
    /\ cfg.kind = "detect"
    /\ run[r].pc = "attach"
    /\ CanStep(r)
    /\ \E ok \in BOOLEAN :
         LET a == run[r].asg
             rv == [run[r] EXCEPT !.did = @ \cup {"attach"},
                                  !.writes = Append(@,
                                      LogEntry("attach", a, run[r].submission_id, ok))]
         IN  /\ run' = [run EXCEPT ![r] =
                          IF ok
                          THEN [rv EXCEPT !.printed = @ \cup {"File attached to submission"},
                                          !.pc = "turnin"]
                          ELSE NextAssignment(
                                 [rv EXCEPT !.total_submitted = @ + 1,
                                            !.printed =
                                                @ \cup {"Error submitting assignment",
                                                        "Assignment submitted successfully!"}])]
    /\ UNCHANGED <<mode, cfg, subs, driveFiles>>
    /\ UNCHANGED <<batchVars, renderVars, execs>>

\* submit_assignment's turnIn with a plausible slip: the HttpError is not
\* caught and ends the run.
DetectTurnInFatal(r) ==
    /\ cfg.kind = "detect"
    /\ run[r].pc = "turnin"
    /\ CanStep(r)
    /\ \E ok \in BOOLEAN :
         LET a == run[r].asg
             sid == run[r].submission_id
             rv == [run[r] EXCEPT !.did = @ \cup {"turnin"},
                                  !.writes = Append(@, LogEntry("turnin", a, sid, ok))]
         IN  /\ subs' = IF ok THEN TurnedIn(a, sid) ELSE subs
             /\ run' = [run EXCEPT ![r] =
                          IF ok
                          THEN NextAssignment(
                                 [rv EXCEPT !.total_submitted = @ + 1,
                                            !.printed =
                                                @ \cup {"Assignment turned in!",
                                                        "Assignment submitted successfully!"}])
                          ELSE [rv EXCEPT !.exc = "HttpError", !.pc = "crashed"]]
    /\ UNCHANGED <<mode, cfg, driveFiles>>
    /\ UNCHANGED <<batchVars, renderVars, execs>>

\* submit_assignment: turnIn, then "total_submitted += 1" of detect.
DetectTurnIn(r) ==
    /\ cfg.kind = "detect"
    /\ run[r].pc = "turnin"
    /\ CanStep(r)
    /\ \E ok \in BOOLEAN :
         LET a == run[r].asg
             sid == run[r].submission_id
             rv == [run[r] EXCEPT !.did = @ \cup {"turnin"},
                                  !.writes = Append(@, LogEntry("turnin", a, sid, ok)),
                                  !.total_submitted = @ + 1,
                                  !.printed =
                                      @ \cup {IF ok THEN "Assignment turned in!"
                                              ELSE "Error submitting assignment",
                                              "Assignment submitted successfully!"}]
         IN  /\ subs' = IF ok THEN TurnedIn(a, sid) ELSE subs
             /\ run' = [run EXCEPT ![r] = NextAssignment(rv)]
    /\ UNCHANGED <<mode, cfg, driveFiles>>
    /\ UNCHANGED <<batchVars, renderVars, execs>>

\* The summary printed after the loops.
DetectSummary(r) ==
    /\ cfg.kind = "detect"
    /\ run[r].pc = "summary"
    /\ CanStep(r)
    /\ run' = [run EXCEPT ![r] = [@ EXCEPT !.pc = "done"]]
    /\ UNCHANGED <<mode, cfg, subs, driveFiles>>
    /\ UNCHANGED <<batchVars, renderVars, execs>>

(***************************************************************************)
(* assignment_solver.py: solve_assignment and upload_to_classroom           *)
(***************************************************************************)
\* Steps 1 to 4 of solve_assignment (fetch, parse, solve, PDF) and the test
\* of auto_upload.  fetched = FALSE is the HttpError of courseWork().get().
SolveAssignment(r) ==
    /\ cfg.kind = "solve"
    /\ run[r].pc = "start"
    /\ CanStep(r)
    /\ \E fetched \in BOOLEAN, nq \in BOOLEAN :
         LET a == cfg.target
             rv == [run[r] EXCEPT
                      !.asg = a, !.no_questions = nq,
                      !.did =
                          {"extract", "report"}
                          \cup (IF nq THEN {} ELSE {"generate", "execute"})]
         IN  run' = [run EXCEPT ![r] =
                       IF ~fetched THEN [run[r] EXCEPT !.asg = a, !.pc = "done"]
                       ELSE IF cfg.auto THEN [rv EXCEPT !.pc = "s_upload"]
                       ELSE [rv EXCEPT !.pc = "done"]]
    /\ UNCHANGED <<mode, cfg, subs, driveFiles>>
    /\ UNCHANGED <<batchVars, renderVars, execs>>

\* upload_to_classroom: drive_service.files().create()
UploadDrive(r) ==
    /\ cfg.kind = "solve"
    /\ run[r].pc = "s_upload"
    /\ CanStep(r)
    /\ \E ok \in BOOLEAN :
         LET a == run[r].asg
             rv == [run[r] EXCEPT !.did = @ \cup {"upload"},
                                  !.writes = Append(@, LogEntry("upload", a, NoneId, ok))]
         IN  /\ driveFiles' = IF ok THEN driveFiles + 1 ELSE driveFiles
             /\ run' = [run EXCEPT ![r] =
                          IF ok
                          THEN [rv EXCEPT !.drive_file_id = driveFiles + 1,
                                          !.pc = "s_list"]
                          ELSE [rv EXCEPT !.printed =
                                              @ \cup {"Error uploading to classroom"},
                                          !.pc = "done"]]
    /\ UNCHANGED <<mode, cfg, subs>>
    /\ UNCHANGED <<batchVars, renderVars, execs>>

\* upload_to_classroom: studentSubmissions().list() and
\* submission_id = submissions['studentSubmissions'][0]['id']
UploadList(r) ==
    /\ cfg.kind = "solve"
    /\ run[r].pc = "s_list"
    /\ CanStep(r)
    /\ \E ok \in BOOLEAN :
         LET recs == subs[run[r].asg]
             rv == [run[r] EXCEPT !.obs = Observed(ok, recs)]
         IN  run' = [run EXCEPT ![r] =
                       IF ~ok
                       THEN [rv EXCEPT !.printed =
                                           @ \cup {"Error uploading to classroom"},
                                       !.pc = "done"]
                       ELSE IF recs = << >>
                       THEN [rv EXCEPT !.printed =
                                           @ \cup {"No submission found for this coursework"},
                                       !.pc = "done"]
                       ELSE IF recs[1].id = EmptyId
                       THEN [rv EXCEPT !.exc = "KeyError", !.pc = "done"]
                       ELSE [rv EXCEPT !.submission_id = recs[1].id,
                                       !.pc = "s_attach"]]
    /\ UNCHANGED <<mode, cfg, subs, driveFiles>>
    /\ UNCHANGED <<batchVars, renderVars, execs>>

\* upload_to_classroom: modifyAttachments
UploadAttach(r) ==
    /\ cfg.kind = "solve"
    /\ run[r].pc = "s_attach"
    /\ CanStep(r)
    /\ \E ok \in BOOLEAN :
         LET a == run[r].asg
             rv == [run[r] EXCEPT !.did = @ \cup {"attach"},
                                  !.writes = Append(@,
                                      LogEntry("attach", a, run[r].submission_id, ok))]
         IN  /\ run' = [run EXCEPT ![r] =
                          IF ok THEN [rv EXCEPT !.pc = "s_turnin"]
                          ELSE [rv EXCEPT !.printed =
                                              @ \cup {"Error uploading to classroom"},
                                          !.pc = "done"]]
    /\ UNCHANGED <<mode, cfg, subs, driveFiles>>
    /\ UNCHANGED <<batchVars, renderVars, execs>>

\* upload_to_classroom: turnIn
UploadTurnIn(r) ==
    /\ cfg.kind = "solve"
    /\ run[r].pc = "s_turnin"
    /\ CanStep(r)
    /\ \E ok \in BOOLEAN :
         LET a == run[r].asg
             sid == run[r].submission_id
             rv == [run[r] EXCEPT !.did = @ \cup {"turnin"},
                                  !.writes = Append(@, LogEntry("turnin", a, sid, ok)),
                                  !.printed =
                                      @ \cup {IF ok THEN "Submitted to Google Classroom!"
                                              ELSE "Error uploading to classroom"},
                                  !.pc = "done"]
         IN  /\ subs' = IF ok THEN TurnedIn(a, sid) ELSE subs
             /\ run' = [run EXCEPT ![r] = rv]
    /\ UNCHANGED <<mode, cfg, driveFiles>>
    /\ UNCHANGED <<batchVars, renderVars, execs>>

NextRace ==
    \E r \in Runs :
        \/ DetectStart(r)
        \/ DetectCheck(r)
        \/ DetectDecide(r)
        \/ DetectExtract(r)
        \/ DetectSolve(r)
        \/ DetectUpload(r)
        \/ DetectAttach(r)
        \/ DetectTurnIn(r)
        \/ DetectContinue(r)
        \/ DetectSummary(r)

NextSubmit ==
    \E r \in Runs :
        \/ DetectStart(r)
        \/ DetectCheck(r)
        \/ DetectDecide(r)
        \/ DetectExtract(r)
        \/ DetectSolve(r)
        \/ DetectUpload(r)
        \/ DetectAttach(r)
        \/ DetectTurnIn(r)
        \/ DetectContinue(r)
        \/ DetectSummary(r)
        \/ SolveAssignment(r)
        \/ UploadDrive(r)
        \/ UploadList(r)
        \/ UploadAttach(r)
        \/ UploadTurnIn(r)

InitSubmit ==
    /\ IdleBatch
    /\ cfg \in Cfgs
    /\ subs \in [Assignments -> UNION { RecordLists(a) : a \in Assignments }]
    /\ \A a \in Assignments : subs[a] \in RecordLists(a)
    /\ driveFiles = 0
    /\ run = [r \in Runs |-> [NoRun EXCEPT !.pc = "start"]]

InitSeq == mode = "seq" /\ InitSubmit

\* Two detect --auto-submit processes started on the same account, for a
\* course with one coding assignment.
InitRace ==
    /\ mode = "race"
    /\ InitSubmit
    /\ cfg.kind = "detect"
    /\ cfg.auto
    /\ cfg.n = 1
    /\ \A a \in Assignments \ {1} : subs[a] = << >>

\* One detect run.
InitDetect ==
    /\ mode = "seq"
    /\ IdleBatch
    /\ cfg \in Cfgs
    /\ cfg.kind = "detect"
    /\ subs \in [Assignments -> UNION { RecordLists(a) : a \in Assignments }]
    /\ \A a \in Assignments : subs[a] \in RecordLists(a)
    /\ driveFiles = 0
    /\ run = [r \in Runs |-> IF r = 1 THEN [NoRun EXCEPT !.pc = "start"] ELSE NoRun]

(***************************************************************************)
(* Properties of the execution calls and of the per-problem loops.          *)
(***************************************************************************)
LastProc == procs[Len(procs)]

\* C1: when a call of execute_code has returned or raised, the temporary
\* directory made for the call is gone, and so is every file in it and every
\* file the call wrote, whatever the path the call left by.
C1_TempDirRemoved ==
    (prog = "solve" /\ pc \in {"returned", "raised"}) =>
        /\ call.temp_dir \notin dirs
        /\ InTempDir(call.temp_dir) = {}
        /\ call.mine \cap files = {}

\* A call that wrote its source, compiled it, timed out in the run step and
\* has returned.
C1_Witness ==
    /\ prog = "solve"
    /\ pc = "returned"
    /\ Len(procs) = 2
    /\ LastProc.o.kind = "timeout"
    /\ Cardinality(call.mine) >= 2

\* C2: when a call of execute_code_and_capture has returned, none of the
\* files it wrote (source file, compiled binary, class files) is left, also
\* when its compile or run step timed out or could not be started.
C2_CaptureFilesRemoved ==
    (prog = "detect" /\ pc = "returned" /\ procs # << >>) =>
        call.mine \cap files = {}

C4_LoopSurvivesFailures ==
    /\ Len(outputs) = idx
    /\ idx <= nProblems
    /\ Len(solutions) \in {idx, idx + 1}
    /\ \A i \in DOMAIN solutions : solutions[i].problem = i
    /\ \A i \in DOMAIN outputs : outputs[i].problem = i
    /\ pc = "done" => (idx = nProblems /\ Len(solutions) = nProblems)
    /\ pc = "aborted" =>
           (prog = "solve" /\ call.exc = "OSError" /\ procs = << >>)

\* A loop of solve_assignment over two problems has ended, the execution
\* for the first problem having failed.
C4_Witness ==
    /\ prog = "solve"
    /\ pc = "done"
    /\ nProblems = 2
    /\ Len(solutions) = 2
    /\ outputs[1].fallback

\* C5: for java and c++ a run step is only ever the second process of the
\* call, after a compile step that exited with code 0; a compile step that
\* exits with another code is the only process of the call, and execute_code
\* then returns ("", the compiler's stderr, False).
C5_RunOnlyAfterCompile ==
    procs # << >> =>
        /\ language.isStr
        /\ LangBranch(language) \in {"java", "cpp"} =>
              /\ procs[1].stage = "compile"
              /\ \A i \in DOMAIN procs :
                     procs[i].stage = "run" =>
                        /\ i = 2
                        /\ procs[1].o.kind = "exit"
                        /\ procs[1].o.rc = 0
              /\ (procs[1].o.kind = "exit" /\ procs[1].o.rc # 0) =>
                     /\ Len(procs) = 1
                     /\ pc \notin {"run", "cap_run"}
                     /\ (prog = "solve" /\ pc = "returned") =>
                            call.result = Result("", procs[1].o.stderr, FALSE)

\* execute_code has returned after a compiler error.
C5_Witness ==
    /\ prog = "solve"
    /\ pc = "returned"
    /\ Len(procs) = 1
    /\ procs[1].stage = "compile"
    /\ procs[1].o.rc = 1
    /\ call.result.stderr = "warn"

(***************************************************************************)
(* Properties of the submission workflow.                                   *)
(***************************************************************************)
Submitted == {"TURNED_IN", "RETURNED"}

\* The iteration of run r has passed the two tests that follow the check.
PastDecide(r) == run[r].pc \notin {"off", "start", "check", "decide"}

Writes(r, op) ==
    { i \in DOMAIN run[r].writes : run[r].writes[i].op = op }

\* C6: in runs that follow one another (detect --auto-submit with
\* skip_submitted, or solve_assignment with auto_upload) no turn-in and no
\* attach is issued for a submission that is TURNED_IN or RETURNED when the
\* call arrives.
C6_NoWriteOnSubmitted ==
    ((cfg.kind = "detect" /\ cfg.auto /\ cfg.skip) \/ (cfg.kind = "solve" /\ cfg.auto))
    => \A r \in Runs : \A i \in DOMAIN run[r].writes :
           run[r].writes[i].op \in {"attach", "turnin"}
               => run[r].writes[i].before \notin Submitted

\* C7: an iteration of detect whose check read a record with an id is
\* skipped, with nothing else done, exactly when the record is TURNED_IN or
\* RETURNED and skip_submitted is on; otherwise it goes on to the extraction.
C7_SkipExactlyWhenSubmitted ==
    \A r \in Runs :
        (/\ cfg.kind = "detect"
         /\ PastDecide(r)
         /\ run[r].obs \in SubStates
         /\ ~IsFalsy(run[r].submission_id))
        => IF run[r].obs \in Submitted /\ cfg.skip
           THEN /\ run[r].did = {"skip"}
                /\ run[r].writes = << >>
                /\ run[r].pc \in {"next", "summary", "done"}
           ELSE /\ "skip" \notin run[r].did
                /\ run[r].pc = "extract" \/ "extract" \in run[r].did

\* An iteration was skipped for a RETURNED record.
C7_Witness ==
    \E r \in Runs :
        /\ cfg.kind = "detect"
        /\ cfg.skip
        /\ run[r].obs = "RETURNED"
        /\ run[r].did = {"skip"}
        /\ run[r].pc = "next"

\* C8: when the list of records read is empty, or the read failed, the check
\* gives (False, None) and the iteration is skipped: nothing is extracted,
\* uploaded, attached or turned in, and no submission id appears.
C8_NoRecordNoSubmission ==
    \A r \in Runs :
        (/\ cfg.kind = "detect"
         /\ run[r].obs \in {"empty", "error"})
        => /\ ~run[r].is_submitted
           /\ run[r].submission_id = NoneId
           /\ run[r].writes = << >>
           /\ run[r].drive_file_id = NoneId
           /\ run[r].did \subseteq {"skip"}
           /\ PastDecide(r) =>
                  (run[r].did = {"skip"} /\ run[r].pc \in {"next", "summary", "done"})

\* An iteration was skipped after a failed read while the remote holds a
\* record that is not submitted.
C8_Witness ==
    \E r \in Runs :
        /\ cfg.kind = "detect"
        /\ cfg.auto
        /\ run[r].obs = "error"
        /\ run[r].pc = "next"
        /\ subs[run[r].asg] # << >>
        /\ subs[run[r].asg][1].state = "NEW"

\* C9: the step that calls check_submission_status changes nothing on the
\* remote and, in the run, only the two values it returns (and the
\* position of the run).
C9_CheckOnlyReads ==
    [][ \A r \in Runs :
          (run[r].pc = "check" /\ run'[r].pc # "check") =>
             /\ subs' = subs
             /\ driveFiles' = driveFiles
             /\ \A q \in Runs \ {r} : run'[q] = run[q]
             /\ run'[r] = [run[r] EXCEPT
                              !.is_submitted = run'[r].is_submitted,
                              !.submission_id = run'[r].submission_id,
                              !.obs = run'[r].obs,
                              !.pc = "decide"] ]_vars

\* A check has read a turned-in record.
C9_Witness ==
    \E r \in Runs :
        /\ run[r].pc = "decide"
        /\ run[r].obs = "TURNED_IN"
        /\ run[r].is_submitted

\* C10: with two detect runs at once, every attach and turn-in of a run is
\* for the id its own check returned and rests on what that check read (not
\* submitted, when skip_submitted is on), not on the state of the submission
\* when the call arrives: nothing makes the check and the writes atomic.
C10_WritesRestOnOwnCheck ==
    \A r \in Runs : \A i \in DOMAIN run[r].writes :
        run[r].writes[i].op \in {"attach", "turnin"} =>
            /\ run[r].writes[i].sid = run[r].submission_id
            /\ ~IsFalsy(run[r].submission_id)
            /\ cfg.skip => run[r].obs \in SubStates \ Submitted

\* Both runs read the same submission as not submitted and both issued
\* attach and turn-in for it, the second turn-in arriving after the first.
C10_Witness ==
    /\ cfg.skip
    /\ run[1].asg = run[2].asg
    /\ run[1].obs \in SubStates \ Submitted
    /\ run[2].obs \in SubStates \ Submitted
    /\ run[1].submission_id = run[2].submission_id
    /\ \A r \in Runs : Writes(r, "attach") # {} /\ Writes(r, "turnin") # {}
    /\ \E r \in Runs : \E i \in Writes(r, "turnin") :
           run[r].writes[i].before = "TURNED_IN"

\* Run r has, in its current iteration, an attach or turn-in call that the
\* remote refused.
FailedWrite(r) ==
    \E i \in DOMAIN run[r].writes :
        /\ run[r].writes[i].op \in {"attach", "turnin"}
        /\ ~run[r].writes[i].ok

\* C11: a refused attach or turn-in is reported and ends only the iteration:
\* no exception leaves submit_assignment, detect goes on to the check of the
\* next assignment when there is one, and the run reaches its summary and
\* its end.
C11_WriteFailureNotFatal ==
    \A r \in Runs :
        /\ [](FailedWrite(r) =>
                /\ "Error submitting assignment" \in run[r].printed
                /\ run[r].exc = "none"
                /\ run[r].pc \in {"next", "summary", "done"})
        /\ \A a \in Assignments :
              (FailedWrite(r) /\ run[r].asg = a /\ a < cfg.n)
                  ~> (run[r].asg = a + 1 /\ run[r].pc = "check")
        /\ (FailedWrite(r) /\ run[r].pc = "next") ~> (run[r].pc = "summary")
        /\ FailedWrite(r) ~> (run[r].pc = "done")

\* The turn-in for the first assignment was refused and the iteration has
\* ended, another assignment remaining.
C11_Witness ==
    \E r \in Runs :
        /\ cfg.kind = "detect"
        /\ run[r].asg = 1
        /\ run[r].asg < run[r].total_assignments
        /\ run[r].pc = "next"
        /\ \E i \in Writes(r, "turnin") : ~run[r].writes[i].ok
        /\ "Error submitting assignment" \in run[r].printed

\* C12: in the iteration of a run for one assignment there is at most one
\* attach call and at most one turn-in call, all for that assignment; a
\* refused call is the last remote write of the iteration, so a refused
\* attach is followed by no turn-in and nothing is tried again.
C12_NoRetry ==
    \A r \in Runs :
        /\ Cardinality(Writes(r, "attach")) <= 1
        /\ Cardinality(Writes(r, "turnin")) <= 1
        /\ \A i \in DOMAIN run[r].writes :
              /\ run[r].writes[i].asg = run[r].asg
              /\ ~run[r].writes[i].ok =>
                    /\ i = Len(run[r].writes)
                    /\ run[r].pc \in {"next", "summary", "done"}
        /\ \A i \in Writes(r, "turnin") :
              \E j \in Writes(r, "attach") : j < i /\ run[r].writes[j].ok

\* The attach call of upload_to_classroom was refused and the run has ended
\* without a turn-in.
C12_Witness ==
    \E r \in Runs :
        /\ cfg.kind = "solve"
        /\ run[r].pc = "done"
        /\ Writes(r, "turnin") = {}
        /\ \E i \in Writes(r, "attach") : ~run[r].writes[i].ok

\* How the last process of a call ended, as the caller would like to know it.
FailureKind(o) ==
    IF o.kind = "exit" THEN (IF o.rc = 0 THEN "ok" ELSE "nonzero") ELSE o.kind

\* The result execute_code gives when its run step ends as o.
ResultFor(o) == IF o.kind = "exit" THEN RunResult(o) ELSE ExecHandler(o)

\* C13: the result execute_code returned after a timeout, after a binary
\* that could not be started or after a non-zero exit of the run step is a
\* result that no process ending in another of these ways can produce.
C13_FailureKindsDistinct ==
    (/\ prog = "solve"
     /\ pc = "returned"
     /\ procs # << >>
     /\ LastProc.stage = "run"
     /\ FailureKind(LastProc.o) # "ok")
    => \A o \in ProcOutcomes :
          FailureKind(o) \notin {"ok", FailureKind(LastProc.o)}
              => ResultFor(o) # call.result

\* C14: the result execute_code returned after a timeout tells the stage in
\* which the call ended: the result after a timeout of the compile step is
\* not the result a timeout of the run step gives.
C14_StageIdentified ==
    (/\ prog = "solve"
     /\ pc = "returned"
     /\ procs # << >>
     /\ LastProc.stage = "compile"
     /\ LastProc.o.kind = "timeout")
    => \A o \in ProcOutcomes :
          o.kind = "timeout" => ResultFor(o) # call.result

\* C15: when the run step ran to its end, what the call returns carries the
\* outcome: execute_code returns the process's stdout and stderr as they
\* are, with success exactly for exit code 0, and what
\* execute_code_and_capture returns for an exit code 0 is never what it
\* returns for another exit code.
C15_RunOutcomeCarried ==
    (/\ pc = "returned"
     /\ procs # << >>
     /\ LastProc.stage = "run"
     /\ LastProc.o.kind = "exit")
    => IF prog = "solve"
       THEN call.result =
                Result(LastProc.o.stdout, LastProc.o.stderr, LastProc.o.rc = 0)
       ELSE \A o \in ProcOutcomes :
               (o.kind = "exit" /\ (o.rc = 0) # (LastProc.o.rc = 0))
                   => CapRunOutput(o) # call.output_text

\* The language is a name that none of the branches of the execution
\* functions takes.
Unsupported == language.isStr /\ LangBranch(language) = "unsupported"

\* C16: for a language without a branch both execution functions return a
\* failure that says so: execute_code the result ("", "Unsupported
\* language: <name>", False), execute_code_and_capture an output text that
\* is a message.
C16_UnsupportedReported ==
    (pc = "returned" /\ Unsupported) =>
        IF prog = "solve"
        THEN call.result =
                 Result("", "Unsupported language: " \o JoinChars(language.chars),
                        FALSE)
        ELSE call.output_text # ""

\* C17: for a language without a branch the call returns without having
\* made a temporary directory, written a file or started a process (calls
\* that met an error of the filesystem set aside).
C17_UnsupportedTouchesNothing ==
    (/\ pc = "returned"
     /\ Unsupported
     /\ prog = "detect" => call.file_path # << >>) =>
        /\ call.temp_dir = -1
        /\ call.mine = {}
        /\ procs = << >>

(***************************************************************************)
(* The recipe of a language, written down once per language for its        *)
(* lower-case names, and every way of writing those names.                  *)
(***************************************************************************)
UpperChar(c) ==
    IF \E i \in 1..26 : LowerAlpha[i] = c
    THEN UpperAlpha[CHOOSE i \in 1..26 : LowerAlpha[i] = c]
    ELSE c

RECURSIVE Casings(_)
\* Every letter-casing of the lower-case word w.
Casings(w) ==
    IF w = << >> THEN { << >> }
    ELSE { <<c>> \o t : c \in {Head(w), UpperChar(Head(w))},
                        t \in Casings(Tail(w)) }

\* The names of the languages that have a branch, by branch.
Names ==
    [ python |-> { <<"p","y","t","h","o","n">> },
      java   |-> { <<"j","a","v","a">> },
      cpp    |-> { <<"c","+","+">>, <<"c","p","p">> } ]

\* The branch whose name, in some casing, lang is; "none" if there is none.
Family(lang) ==
    IF ~lang.isStr THEN "none"
    ELSE IF \E f \in DOMAIN Names : \E w \in Names[f] : lang.chars \in Casings(w)
    THEN CHOOSE f \in DOMAIN Names : \E w \in Names[f] : lang.chars \in Casings(w)
    ELSE "none"

Step(stage, cmd, timeout) == [stage |-> stage, cmd |-> cmd, timeout |-> timeout]

\* The extension of the source file and the subprocess.run calls of each
\* branch, for execute_code (p = "solve") and execute_code_and_capture.
Recipe(p, f) ==
    IF p = "solve"
    THEN IF f = "python"
         THEN [ext |-> ".py", steps |-> << Step("run", "python3", 10) >>]
         ELSE IF f = "java"
         THEN [ext |-> ".java",
               steps |-> << Step("compile", "javac", 10), Step("run", "java", 10) >>]
         ELSE [ext |-> ".cpp",
               steps |-> << Step("compile", "g++", 10), Step("run", "solution", 10) >>]
    ELSE IF f = "python"
         THEN [ext |-> ".py", steps |-> << Step("run", "python3", 5) >>]
         ELSE IF f = "java"
         THEN [ext |-> ".java",
               steps |-> << Step("compile", "javac", 10), Step("run", "java", 5) >>]
         ELSE [ext |-> ".cpp",
               steps |-> << Step("compile", "g++", 10), Step("run", "exe_file", 5) >>]

\* The source file of the call when it is named by the recipe of branch f.
RecipeFile(p, f) ==
    IF p = "solve"
    THEN (IF f = "python" THEN "solution"
          ELSE IF f = "java" THEN ClassName(call.code)
          ELSE "solution") \o Recipe(p, f).ext
    ELSE TempName(tmpCounter, Recipe(p, f).ext)

\* The call ended in a handler because the source file could not be written.
WriteFailed ==
    call.result.stderr = "OSError" \/ call.output_text = "Execution error: OSError"

\* One call of an execution function for a language given in any casing of
\* any of its names.
InitResolve ==
    /\ prog \in {"solve", "detect"}
    /\ language \in { Str(c) : c \in UNION { Casings(w) :
                                    w \in UNION { Names[f] : f \in DOMAIN Names } } }
    /\ nProblems = 1
    /\ idx = 0
    /\ pc = "loop"
    /\ solutions = << >>
    /\ outputs = << >>
    /\ call = NoCall
    /\ procs = << >>
    /\ dirs = {}
    /\ files = {}
    /\ tmpCounter = 0
    /\ report = << >>
    /\ IdleRender
    /\ IdlePair
    /\ IdleSubmit

\* C18: whatever the casing of the language name, and whichever of "c++"
\* and "cpp" is given, the call takes the branch of the language: it names
\* its source file, and starts its processes with the commands, in the order
\* and with the timeouts, of the one recipe of that branch.
C18_RecipeByNameAnyCase ==
    LET f == Family(language)
        rec == Recipe(prog, f)
    IN  f # "none" =>
          /\ call.file_path # << >> => call.file_path[2] = RecipeFile(prog, f)
          /\ Len(procs) <= Len(rec.steps)
          /\ \A i \in DOMAIN procs :
                Step(procs[i].stage, procs[i].cmd, procs[i].timeout) = rec.steps[i]
          /\ (pc = "returned" /\ ~WriteFailed) => procs # << >>

\* A call for "CPp" has compiled and run with the c++ recipe.
C18_Witness ==
    /\ language = Str(<<"C","P","p">>)
    /\ prog = "detect"
    /\ pc = "returned"
    /\ Len(procs) = 2
    /\ procs[1].cmd = "g++"
    /\ procs[2].cmd = "exe_file"

\* C19: in a call for java the source file is named <Name>.java and the run
\* step is given the class <Name>, where <Name> is the identifier after the
\* first "public class" of the source, or "Solution" when there is none.
C19_JavaNamedByClass ==
    (/\ language.isStr
     /\ LangBranch(language) = "java"
     /\ call.file_path # << >>)
    => /\ call.file_path[2] = ClassName(call.code) \o ".java"
       /\ (procs # << >> /\ LastProc.stage = "run")
              => call.class_name = ClassName(call.code)

\* C21: in solve_assignment the output rendered for a problem is the
\* captured stdout when the execution succeeded and the example output
\* otherwise, and an example output is rendered under another label than a
\* captured output.
C21_FallbackLabelled ==
    prog = "solve" =>
        /\ (pc = "loop" /\ idx > 0) =>
               outputs[idx].shot.text =
                   IF call.result.success THEN call.result.stdout
                   ELSE solutions[idx].example_output
        /\ \A i, j \in DOMAIN outputs :
               (/\ outputs[i].fallback
                /\ ~outputs[j].fallback
                /\ outputs[i].shot.text # ""
                /\ outputs[j].shot.text # "")
               => outputs[i].shot.label # outputs[j].shot.label

\* C20: the report assembled after the loop has one section for each
\* problem of the input list, the i-th section being that of the i-th
\* problem with the code generated for it and the output kept for it; a
\* problem whose execution failed has its section like the others.
C20_OneSectionPerProblem ==
    pc = "reported" =>
        /\ Len(report) = nProblems
        /\ \A i \in DOMAIN report :
              /\ report[i].heading = Problems[i]
              /\ solutions[i].problem = i
              /\ report[i].code = solutions[i].code
              /\ outputs[i].problem = i
              /\ report[i].output = outputs[i].output

\* A report of two sections, the execution for the first problem having
\* failed.
C20_Witness ==
    /\ prog = "solve"
    /\ pc = "reported"
    /\ nProblems = 2
    /\ outputs[1].fallback
    /\ ~outputs[2].fallback
    /\ Len(report) = 2

\* C25: when a compile or run step has exceeded its timeout, no process the
\* step started is running once the call has returned, and the loop goes on
\* to the problems that remain: it ends only after the last problem.
C25_TimeoutReapsTree ==
    /\ \A i \in DOMAIN procs :
           (procs[i].o.kind = "timeout" /\ pc \in {"returned", "loop", "done"})
           => procs[i].alive = {}
    /\ (pc = "done" /\ procs # << >> /\ LastProc.o.kind = "timeout")
           => idx = nProblems

\* C23: when the extraction returns an empty list of problems, the run
\* assembles no report for the assignment and issues no upload, attach or
\* turn-in for it, in detect and in solve_assignment.
C23_EmptyExtractionAborts ==
    \A r \in Runs :
        run[r].no_questions =>
            /\ "report" \notin run[r].did
            /\ run[r].writes = << >>

\* The record returned last in the list of assignment a.
LastRecord(a) == subs[a][Len(subs[a])]

\* C26: when the remote returns several submission records, the decision
\* submitted / not submitted and the submission id used for attach and
\* turn-in are those of the record returned last.
C26_LastRecordDecides ==
    \A r \in Runs :
        LET a == run[r].asg IN
        /\ (run[r].pc = "decide" /\ run[r].obs \in SubStates) =>
               /\ run[r].submission_id = LastRecord(a).id
               /\ run[r].is_submitted =
                      (LastRecord(a).state \in {"TURNED_IN", "RETURNED"})
        /\ run[r].pc = "s_attach" => run[r].submission_id = LastRecord(a).id
        /\ \A i \in DOMAIN run[r].writes :
               run[r].writes[i].op \in {"attach", "turnin"} =>
                   run[r].writes[i].sid = LastRecord(a).id

\* C27: in runs with the submit flag off (detect without --auto-submit,
\* solve_assignment with auto_upload = False) no remote write is issued: no
\* Drive upload, no attach and no turn-in, and no file appears on Drive.
C27_FlagOffNoWrite ==
    ~cfg.auto =>
        /\ driveFiles = 0
        /\ \A r \in Runs :
              /\ run[r].writes = << >>
              /\ run[r].did \cap {"upload", "attach", "turnin"} = {}

\* A detect run without --auto-submit has solved two assignments and has
\* reached its summary.
C27_Witness ==
    \E r \in Runs :
        /\ cfg.kind = "detect"
        /\ ~cfg.auto
        /\ run[r].pc = "summary"
        /\ run[r].total_solved = 2

\* C28: the remote writes of a run for one assignment are, in this order,
\* the Drive upload, the attach and the turn-in, each issued once and only
\* after the one before it was accepted.
C28_WritesInOrder ==
    \A r \in Runs :
        LET w == run[r].writes IN
        /\ Len(w) <= 3
        /\ \A i \in DOMAIN w :
              /\ w[i].op = <<"upload", "attach", "turnin">>[i]
              /\ i > 1 => w[i - 1].ok

\* A run has issued the three writes for an assignment, all accepted.
C28_Witness ==
    \E r \in Runs :
        /\ Len(run[r].writes) = 3
        /\ \A i \in 1..3 : run[r].writes[i].ok
        /\ run[r].writes[3].op = "turnin"

\* The accepted turn-in calls in the locals rv of a run.
OkTurnIns(rv) ==
    { i \in DOMAIN rv.writes : rv.writes[i].op = "turnin" /\ rv.writes[i].ok }

\* C29: in detect every step changes total_submitted by the number of
\* turn-in calls accepted in the step, so that at the end of the run the
\* counter is the number of assignments whose turnIn completed without
\* error.
C29_CountsTurnedIn ==
    [][ \A r \in Runs :
          cfg.kind = "detect" =>
              IF run'[r].asg = run[r].asg
              THEN run'[r].total_submitted - run[r].total_submitted =
                       Cardinality(OkTurnIns(run'[r]))
                       - Cardinality(OkTurnIns(run[r]))
              ELSE run'[r].total_submitted = run[r].total_submitted ]_vars

\* C30: a run that found no submission record for the assignment has no
\* accepted remote write for it: no file uploaded to Drive, no attach and
\* no turn-in.
C30_NoRecordNoSideEffect ==
    \A r \in Runs :
        run[r].obs = "empty" =>
            \A i \in DOMAIN run[r].writes : ~run[r].writes[i].ok

(***************************************************************************)
(* The rendering functions.  Each draws sections; a section records which  *)
(* text of the document it shows, how much of it was drawn (the characters *)
(* of each line, or a number of characters) and the notice drawn with it.  *)
(***************************************************************************)
CodeLineLimit == 50
LineCharLimit == 120
OutputLineLimit == 30
DescriptionCharLimit == 100
PdfCodeLineLimit == 50
PdfOutputCharLimit == 500
ShotOutputCharLimit == 1000

RECURSIVE SumLens(_)
SumLens(text) ==
    IF text = << >> THEN 0 ELSE Head(text) + SumLens(Tail(text))

\* len() of the string whose lines are text: the lines and the newlines
\* between them.
Chars(text) == SumLens(text) + Len(text) - 1

\* for line in lines[:maxLines]: draw line[:maxChars]
DrawLines(text, maxLines, maxChars) ==
    [i \in 1..Min(Len(text), maxLines) |-> Min(text[i], maxChars)]

\* for line in lines: draw line
DrawAllLines(text) == text

CodeScreenshot(d) ==
    << [name |-> "CODE:", of |-> "code", unit |-> "lines",
        drawn |-> DrawLines(d.code, CodeLineLimit, LineCharLimit),
        label |-> IF Len(d.code) > CodeLineLimit
                  THEN "... (code truncated) ..." ELSE ""] >>
    \o IF Chars(d.output) = 0 THEN << >>
       ELSE << [name |-> "OUTPUT:", of |-> "output", unit |-> "lines",
                drawn |-> DrawLines(d.output, OutputLineLimit, LineCharLimit),
                label |-> IF Len(d.output) > OutputLineLimit
                          THEN "... (output truncated) ..." ELSE ""] >>

PdfReportSection(d) ==
    << [name |-> "Program", of |-> "description", unit |-> "chars",
        drawn |-> Min(d.description, DescriptionCharLimit), label |-> ""],
       [name |-> "Source Code:", of |-> "code", unit |-> "lines",
        drawn |-> DrawAllLines(d.code), label |-> ""] >>

OutputScreenshot(d) ==
    << [name |-> "Output:", of |-> "output", unit |-> "chars",
        drawn |-> Min(Chars(d.output), ShotOutputCharLimit), label |-> ""] >>

SolutionPdfSection(d) ==
    << [name |-> "Solution Code:", of |-> "code", unit |-> "lines",
        drawn |-> SubSeq(d.code, 1, Min(Len(d.code), PdfCodeLineLimit)),
        label |-> ""],
       [name |-> "Output:", of |-> "output", unit |-> "chars",
        drawn |-> Min(Chars(d.output), PdfOutputCharLimit), label |-> ""] >>

CreateCodeScreenshot ==
    /\ rendered = NoRender
    /\ rendered' = [by |-> "create_code_screenshot",
                    sections |-> CodeScreenshot(doc)]
    /\ UNCHANGED <<doc, batchVars, submitVars, execs>>

CreatePdfReport ==
    /\ rendered = NoRender
    /\ rendered' = [by |-> "create_pdf_report",
                    sections |-> PdfReportSection(doc)]
    /\ UNCHANGED <<doc, batchVars, submitVars, execs>>

CreateOutputScreenshot ==
    /\ rendered = NoRender
    /\ rendered' = [by |-> "_create_output_screenshot",
                    sections |-> OutputScreenshot(doc)]
    /\ UNCHANGED <<doc, batchVars, submitVars, execs>>

CreateSolutionPdf ==
    /\ rendered = NoRender
    /\ rendered' = [by |-> "create_solution_pdf",
                    sections |-> SolutionPdfSection(doc)]
    /\ UNCHANGED <<doc, batchVars, submitVars, execs>>

NextRender ==
    \/ CreateCodeScreenshot
    \/ CreatePdfReport
    \/ CreateOutputScreenshot
    \/ CreateSolutionPdf

\* A text of n lines of w characters each.
Text(n, w) == [i \in 1..n |-> w]

\* Texts at and around each limit of the rendering functions.
CodeTexts ==
    { Text(n, w) : n \in {1, CodeLineLimit, CodeLineLimit + 1},
                   w \in {10, LineCharLimit, LineCharLimit + 1} }

OutputTexts ==
    { Text(1, 0) }
    \cup { Text(n, w) : n \in {1, OutputLineLimit, OutputLineLimit + 1},
                        w \in {10, LineCharLimit, LineCharLimit + 1} }
    \cup { Text(1, c) : c \in {PdfOutputCharLimit, PdfOutputCharLimit + 1,
                               ShotOutputCharLimit, ShotOutputCharLimit + 1} }

Descriptions == {10, DescriptionCharLimit, DescriptionCharLimit + 1}

InitRender ==
    /\ prog = "none"
    /\ language = NoneLang
    /\ nProblems = 0
    /\ idx = 0
    /\ pc = "off"
    /\ solutions = << >>
    /\ outputs = << >>
    /\ call = NoCall
    /\ procs = << >>
    /\ dirs = {}
    /\ files = {}
    /\ tmpCounter = 0
    /\ report = << >>
    /\ IdleSubmit
    /\ doc \in [code : CodeTexts, output : OutputTexts,
                description : Descriptions]
    /\ rendered = NoRender
    /\ IdlePair

\* The length of the text a section shows, and whether the section shows
\* less than all of it.
FullChars(sec) ==
    IF sec.of = "description" THEN doc.description ELSE Chars(doc[sec.of])

ShowsLess(sec) ==
    IF sec.unit = "chars" THEN sec.drawn < FullChars(sec)
    ELSE \/ Len(sec.drawn) < Len(doc[sec.of])
         \/ \E i \in DOMAIN sec.drawn : sec.drawn[i] < doc[sec.of][i]

\* C22: every section a rendering function draws with less than the full
\* text (lines left out, lines cut, characters cut) carries a notice that
\* it was truncated.
C22_TruncationLabelled ==
    \A i \in DOMAIN rendered.sections :
        ShowsLess(rendered.sections[i]) => rendered.sections[i].label # ""

(***************************************************************************)
(* Two calls at once.  Each call is execute_code or                        *)
(* execute_code_and_capture, taken in the steps: the source file is        *)
(* written, the compile step, the run step, the cleanup.                   *)
(***************************************************************************)
PairLanguages ==
    { l \in Languages : l.isStr /\ LangBranch(l) # "unsupported" }

\* temp_dir = tempfile.mkdtemp() and the source file written in it
\* (execute_code); the source written to a NamedTemporaryFile
\* (execute_code_and_capture).
PairStart(e) ==
    /\ execs[e].pc = "start"
    /\ LET k == tmpCounter + 1
           x == execs[e]
           branch == LangBranch(x.language)
           inDir == x.fn = "execute_code"
           path == IF inDir THEN <<k, ExecFileName(branch, x.code)>>
                   ELSE <<TmpRoot, TempName(k, ExtOf(x.language))>>
       IN  /\ tmpCounter' = k
           /\ dirs' = IF inDir THEN dirs \cup {k} ELSE dirs
           /\ files' = files \cup {path}
           /\ execs' = [execs EXCEPT ![e] =
                  [@ EXCEPT
                     !.temp_dir = IF inDir THEN k ELSE TmpRoot,
                     !.file_path = path,
                     !.exe = IF branch # "cpp" THEN << >>
                             ELSE IF inDir THEN <<k, "solution">>
                             ELSE <<TmpRoot, TempName(k, ".out")>>,
                     !.class_name =
                         IF branch # "java" THEN ""
                         ELSE IF inDir THEN ClassName(x.code)
                         ELSE TempName(k, ""),
                     !.touched = {path},
                     !.pc = IF branch = "python" THEN "run" ELSE "compile"]]
    /\ UNCHANGED <<prog, language, nProblems, idx, pc, solutions, outputs,
                   call, procs, report>>
    /\ UNCHANGED <<submitVars, renderVars>>

\* javac / g++: the compiler reads the source and, when it succeeds, leaves
\* its output: the class files beside the source, or the binary.  javac
\* refuses a public class in a file of another name, as the file of
\* execute_code_and_capture always is.
PairCompile(e) ==
    /\ execs[e].pc = "compile"
    /\ \E ok \in BOOLEAN :
         LET x == execs[e]
             branch == LangBranch(x.language)
             built == IF branch = "java"
                      THEN { <<x.temp_dir, n>> : n \in JavacOutputs(x.code) }
                      ELSE { x.exe }
         IN  /\ ok => ~(branch = "java" /\ x.fn = "execute_code_and_capture"
                        /\ HasClassMatch(x.code))
             /\ files' = IF ok THEN files \cup built ELSE files
             /\ execs' = [execs EXCEPT ![e] =
                    [@ EXCEPT
                       !.touched = @ \cup {x.file_path}
                                     \cup (IF ok THEN built ELSE {}),
                       !.pc = IF ok THEN "run" ELSE "cleanup"]]
    /\ UNCHANGED <<prog, language, nProblems, idx, pc, solutions, outputs,
                   call, procs, report, dirs, tmpCounter>>
    /\ UNCHANGED <<submitVars, renderVars>>

\* python3 file / java -cp dir Class / the binary: the file the run step
\* loads.
PairRun(e) ==
    /\ execs[e].pc = "run"
    /\ LET x == execs[e]
           branch == LangBranch(x.language)
           loaded ==
               IF branch = "python" THEN x.file_path
               ELSE IF branch = "cpp" THEN x.exe
               ELSE <<x.temp_dir, x.class_name \o ".class">>
       IN  execs' = [execs EXCEPT ![e] =
               [@ EXCEPT !.touched = @ \cup {loaded}, !.pc = "cleanup"]]
    /\ UNCHANGED <<batchVars, submitVars, renderVars>>

\* finally: shutil.rmtree(temp_dir) (execute_code); os.unlink(temp_file)
\* and, for c++, os.unlink(exe_file) if it exists
\* (execute_code_and_capture).
PairCleanup(e) ==
    /\ execs[e].pc = "cleanup"
    /\ LET x == execs[e]
           gone == IF x.fn = "execute_code"
                   THEN { f \in files : f[1] = x.temp_dir }
                   ELSE {x.file_path}
                        \cup (IF LangBranch(x.language) = "cpp"
                              THEN {x.exe} \cap files ELSE {})
       IN  /\ files' = files \ gone
           /\ dirs' = dirs \ {x.temp_dir}
           /\ execs' = [execs EXCEPT ![e] =
                  [@ EXCEPT !.touched = @ \cup gone, !.pc = "done"]]
    /\ UNCHANGED <<prog, language, nProblems, idx, pc, solutions, outputs,
                   call, procs, report, tmpCounter>>
    /\ UNCHANGED <<submitVars, renderVars>>

NextPair ==
    \E e \in Execs :
        \/ PairStart(e)
        \/ PairCompile(e)
        \/ PairRun(e)
        \/ PairCleanup(e)

InitPair ==
    /\ prog = "none"
    /\ language = NoneLang
    /\ nProblems = 0
    /\ idx = 0
    /\ pc = "off"
    /\ solutions = << >>
    /\ outputs = << >>
    /\ call = NoCall
    /\ procs = << >>
    /\ dirs = {}
    /\ files = {}
    /\ tmpCounter = 0
    /\ report = << >>
    /\ IdleSubmit
    /\ IdleRender
    /\ execs \in [Execs ->
                    { [NoExec EXCEPT !.fn = f, !.language = l, !.code = c,
                                     !.pc = "start"] :
                        f \in {"execute_code", "execute_code_and_capture"},
                        l \in PairLanguages, c \in Codes }]

\* C24: two calls in progress at once touch no path in common: no file
\* written, read or deleted by one is written, read or deleted by the other.
C24_NoSharedPath == execs[1].touched \cap execs[2].touched = {}

Next == NextSolve \/ NextDetect \/ LoopEnd \/ CreateReport

Spec == Init /\ [][Next]_vars

SpecSeq == InitSeq /\ [][NextSubmit]_vars

SpecRace == InitRace /\ [][NextRace]_vars

\* A detect run in which every remote call returns and the program takes its
\* next step.
SpecDetectLive == InitDetect /\ [][NextRace]_vars /\ WF_vars(NextRace)

\* The execution functions called once, for every casing of every name.
SpecResolve == InitResolve /\ [][Next]_vars

\* The rendering functions applied to texts at and around their limits.
SpecRender == InitRender /\ [][NextRender]_vars

\* Two calls of the execution functions in progress at once.
SpecPair == InitPair /\ [][NextPair]_vars

====
